---- MODULE Spec2Model ----
(***************************************************************************)
(* Model of the user-management command line of app/cli.py.                *)
(*                                                                         *)
(* The store is the single User table, kept as the sequence of its rows in *)
(* stored (rowid) order.  Every command is one atomic step: it opens a     *)
(* session, issues its query or mutation, commits or rolls back, prints    *)
(* its outcome and exits.  Strings are sequences of one-character strings  *)
(* so that the LIKE patterns built by `contains` are really matched.       *)
(***************************************************************************)
EXTENDS Integers, Sequences, FiniteSets

(* ------------------------------ bounds -------------------------------- *)

\* create_user stops adding rows once the store would assign an id above this
MaxUserId == 3
\* get_all_users is called with --limit in -1 .. MaxLimit
MaxLimit == 2
\* get_all_users is called with --offset in -1 .. MaxOffset
MaxOffset == 1

(* ------------------------------ strings ------------------------------- *)

\* 'bob', cli.py line 19
bob == <<"b", "o", "b">>
\* 'bob@mail.com', cli.py line 19
bobmail == <<"b", "o", "b", "@", "m", "a", "i", "l", ".", "c", "o", "m">>
\* 'bobpass', cli.py line 19
bobpass == <<"b", "o", "b", "p", "a", "s", "s">>

\* the strings the commands are called with
Usernames == {bob, <<"b", "o">>, <<"a", "l">>}
Emails == {bobmail, <<"a", "l", "@", "x">>, <<"b", "o", "@", "x">>}
Passwords == {<<"p", "w">>}
Queries == Usernames \cup {<<>>, <<"_">>, <<"B", "O">>, <<"@", "x">>, <<"z">>}
Limits == -1 .. MaxLimit
Offsets == -1 .. MaxOffset

\* the database engines behind get_session()
Dialects == {"sqlite", "postgresql"}

(* ------------------------------ messages ------------------------------ *)

MsgInitialized == "Database Initialized"
MsgNoUsers == "No users found"
MsgListed == "<users>"
MsgEmailNotFound == "not found! Unable to update email."
MsgUpdated == "Updated email"
MsgTaken == "Username or email already taken!"
MsgCreated == "<newuser>"
MsgDeleteNotFound == "not found! Unable to delete user."
MsgDeleted == "deleted"
\* nothing is printed by the command: the exception leaves it
MsgIntegrityError == "sqlalchemy.exc.IntegrityError"
MsgDataError == "sqlalchemy.exc.DBAPIError"

ExitOk == "exit 0"
ExitError == "exit non-zero"

VARIABLES
    dialect,   \* the engine the session talks to; fixed for the whole run
    rows,      \* the User table: its rows in stored order
    cmd,       \* the command that ran last
    arg,       \* the arguments it was called with
    msg,       \* what it printed (or the exception that left it)
    result,    \* the User records it printed
    status,    \* its exit status
    before,    \* the User table as the last command found it
    prev       \* the command that ran just before the last one, when it was
               \* initialize, create_user or delete_user: name, username, msg

vars == <<dialect, rows, cmd, arg, msg, result, status, before, prev>>

(* ------------------------------ the store ----------------------------- *)

\* the password as User.__init__ stores it: a hash, never the clear text
Hash(password) == <<"#">> \o password

\* User(username, email, password): an in-memory record without an id yet
User(username, email, password) ==
    [id |-> 0, username |-> username, email |-> email, password |-> Hash(password)]

RECURSIVE MaxId(_)
MaxId(store) ==
    IF store = <<>> THEN 0
    ELSE LET m == MaxId(Tail(store))
         IN  IF Head(store).id > m THEN Head(store).id ELSE m

\* the surrogate key the store gives to an inserted row
NextId(store) == MaxId(store) + 1

\* the UNIQUE constraints of the User table on username and on email
UniqueOK(store) ==
    \A i, j \in DOMAIN store :
        i # j => /\ store[i].username # store[j].username
                 /\ store[i].email # store[j].email

\* drop_all() followed by create_db_and_tables(): an empty User table
ResetSchema == <<>>

\* ASCII lower-casing, as SQLite's LIKE folds case
LowerChar(c) == IF c = "B" THEN "b" ELSE IF c = "O" THEN "o" ELSE c
Lower(s) == [i \in DOMAIN s |-> LowerChar(s[i])]

\* SQL LIKE: % matches any run of characters, _ matches any one character
RECURSIVE LikeMatch(_, _)
LikeMatch(s, p) ==
    IF p = <<>> THEN s = <<>>
    ELSE IF Head(p) = "%"
         THEN LikeMatch(s, Tail(p)) \/ (s # <<>> /\ LikeMatch(Tail(s), p))
         ELSE /\ s # <<>>
              /\ (Head(p) = "_" \/ Head(p) = Head(s))
              /\ LikeMatch(Tail(s), Tail(p))

\* column LIKE pattern, in the engine's case sensitivity
Like(d, s, p) ==
    IF d = "sqlite" THEN LikeMatch(Lower(s), Lower(p)) ELSE LikeMatch(s, p)

\* column.contains(query): column LIKE '%' || query || '%', query not escaped
Contains(d, s, query) == Like(d, s, <<"%">> \o query \o <<"%">>)

RECURSIVE Drop(_, _)
Drop(s, n) == IF n <= 0 \/ s = <<>> THEN s ELSE Drop(Tail(s), n - 1)

RECURSIVE Take(_, _)
Take(s, n) == IF n = 0 \/ s = <<>> THEN <<>> ELSE <<Head(s)>> \o Take(Tail(s), n - 1)

\* the index of the first row with this username, 0 if there is none:
\* select(User).where(User.username == username) ... .first()
FirstByUsername(store, username) ==
    IF \E i \in DOMAIN store : store[i].username = username
    THEN CHOOSE i \in DOMAIN store :
            /\ store[i].username = username
            /\ \A j \in DOMAIN store : store[j].username = username => i <= j
    ELSE 0

\* the store without its i-th row
RemoveAt(store, i) == SubSeq(store, 1, i - 1) \o SubSeq(store, i + 1, Len(store))

NoArg ==
    [username |-> <<>>, email |-> <<>>, password |-> <<>>, query |-> <<>>,
     limit |-> 0, offset |-> 0]

NoPrev == [cmd |-> "other", username |-> <<>>, msg |-> ""]

\* what every command leaves behind: its name, arguments and outcome
Ran(c, a, m, res, st) ==
    /\ cmd' = c
    /\ arg' = a
    /\ msg' = m
    /\ result' = res
    /\ status' = st
    /\ before' = rows
    /\ prev' = IF cmd \in {"initialize", "create_user", "delete_user"}
               THEN [cmd |-> cmd, username |-> arg.username, msg |-> msg]
               ELSE NoPrev
    /\ dialect' = dialect

(* ------------------------------ commands ------------------------------ *)

Init ==
    /\ dialect \in Dialects
    /\ rows = <<>>
    /\ cmd = "none"
    /\ arg = NoArg
    /\ msg = ""
    /\ result = <<>>
    /\ status = ExitOk
    /\ before = <<>>
    /\ prev = NoPrev

\* initialize without the drop_all() of line 17: bob is added to what is there
initialize_NoDrop ==
    LET bobUser == User(bob, bobmail, bobpass)
        stored == [bobUser EXCEPT !.id = NextId(rows)]
    IN  IF UniqueOK(Append(rows, stored))
        THEN /\ rows' = Append(rows, stored)
             /\ Ran("initialize", NoArg, MsgInitialized, <<>>, ExitOk)
        ELSE /\ rows' = rows
             /\ Ran("initialize", NoArg, MsgIntegrityError, <<>>, ExitError)

initialize ==
    LET empty == ResetSchema
        bobUser == User(bob, bobmail, bobpass)
    IN  /\ rows' = Append(empty, [bobUser EXCEPT !.id = NextId(empty)])
        /\ Ran("initialize", NoArg, MsgInitialized, <<>>, ExitOk)

\* get_user without the username clause of line 33: only the email is searched
get_user_EmailOnly(query) ==
    LET users == SelectSeq(rows, LAMBDA u : Contains(dialect, u.email, query))
    IN  /\ rows' = rows
        /\ Ran("get_user", [NoArg EXCEPT !.query = query],
               IF users = <<>> THEN MsgNoUsers ELSE MsgListed, users, ExitOk)

get_user(query) ==
    LET users == SelectSeq(rows, LAMBDA u :
                     Contains(dialect, u.username, query)
                         \/ Contains(dialect, u.email, query))
    IN  /\ rows' = rows
        /\ Ran("get_user", [NoArg EXCEPT !.query = query],
               IF users = <<>> THEN MsgNoUsers ELSE MsgListed, users, ExitOk)

\* SELECT ... LIMIT limit OFFSET offset: SQLite reads a negative OFFSET as 0 and
\* a negative LIMIT as no limit; PostgreSQL rejects either and the command fails
get_all_users(limit, offset) ==
    /\ rows' = rows
    /\ IF dialect = "postgresql" /\ (limit < 0 \/ offset < 0)
       THEN Ran("get_all_users", [NoArg EXCEPT !.limit = limit, !.offset = offset],
                MsgDataError, <<>>, ExitError)
       ELSE LET skipped == Drop(rows, offset)
                users == IF limit < 0 THEN skipped ELSE Take(skipped, limit)
            IN  Ran("get_all_users", [NoArg EXCEPT !.limit = limit, !.offset = offset],
                    IF users = <<>> THEN MsgNoUsers ELSE MsgListed, users, ExitOk)

\* the index of the first row whose username contains this one, 0 if none:
\* a lookup written with .contains() where == is meant
FirstLikeUsername(store, username) ==
    IF \E i \in DOMAIN store : Contains(dialect, store[i].username, username)
    THEN CHOOSE i \in DOMAIN store :
            /\ Contains(dialect, store[i].username, username)
            /\ \A j \in DOMAIN store :
                  Contains(dialect, store[j].username, username) => i <= j
    ELSE 0

\* change_email with the failed commit of line 75 swallowed: the update is
\* rolled back and line 76 still reports it
change_email_Swallowed(username, new_email) ==
    LET i == FirstByUsername(rows, username)
        a == [NoArg EXCEPT !.username = username, !.email = new_email]
    IN  IF i = 0
        THEN /\ rows' = rows
             /\ Ran("change_email", a, MsgEmailNotFound, <<>>, ExitOk)
        ELSE LET updated == [rows EXCEPT ![i].email = new_email]
             IN  /\ rows' = IF UniqueOK(updated) THEN updated ELSE rows
                 /\ Ran("change_email", a, MsgUpdated, <<updated[i]>>, ExitOk)

\* change_email with the lookup of line 69 by substring instead of equality
change_email_Like(username, new_email) ==
    LET i == FirstLikeUsername(rows, username)
        a == [NoArg EXCEPT !.username = username, !.email = new_email]
    IN  IF i = 0
        THEN /\ rows' = rows
             /\ Ran("change_email", a, MsgEmailNotFound, <<>>, ExitOk)
        ELSE LET updated == [rows EXCEPT ![i].email = new_email]
             IN  IF UniqueOK(updated)
                 THEN /\ rows' = updated
                      /\ Ran("change_email", a, MsgUpdated, <<updated[i]>>, ExitOk)
                 ELSE /\ rows' = rows
                      /\ Ran("change_email", a, MsgIntegrityError, <<>>, ExitError)

change_email(username, new_email) ==
    LET i == FirstByUsername(rows, username)
        a == [NoArg EXCEPT !.username = username, !.email = new_email]
    IN  IF i = 0
        THEN /\ rows' = rows
             /\ Ran("change_email", a, MsgEmailNotFound, <<>>, ExitOk)
        ELSE LET updated == [rows EXCEPT ![i].email = new_email]
             IN  IF UniqueOK(updated)
                 THEN /\ rows' = updated
                      /\ Ran("change_email", a, MsgUpdated, <<updated[i]>>, ExitOk)
                 ELSE \* db.commit() raises IntegrityError, nothing catches it:
                      \* the session closes, which rolls the update back
                      /\ rows' = rows
                      /\ Ran("change_email", a, MsgIntegrityError, <<>>, ExitError)

\* create_user whose row is stored although it repeats a username or an email
create_user_NoConstraint(username, email, password) ==
    LET newuser == User(username, email, password)
        stored == [newuser EXCEPT !.id = NextId(rows)]
        a == [NoArg EXCEPT !.username = username, !.email = email,
                           !.password = password]
    IN  /\ NextId(rows) <= MaxUserId
        /\ rows' = Append(rows, stored)
        /\ Ran("create_user", a, MsgCreated, <<stored>>, ExitOk)

\* create_user without the try/except of lines 90-95: the IntegrityError
\* leaves the command, as it does in change_email
create_user_Uncaught(username, email, password) ==
    LET newuser == User(username, email, password)
        stored == [newuser EXCEPT !.id = NextId(rows)]
        a == [NoArg EXCEPT !.username = username, !.email = email,
                           !.password = password]
    IN  IF UniqueOK(Append(rows, stored))
        THEN /\ NextId(rows) <= MaxUserId
             /\ rows' = Append(rows, stored)
             /\ Ran("create_user", a, MsgCreated, <<stored>>, ExitOk)
        ELSE /\ rows' = rows
             /\ Ran("create_user", a, MsgIntegrityError, <<>>, ExitError)

create_user(username, email, password) ==
    LET newuser == User(username, email, password)
        stored == [newuser EXCEPT !.id = NextId(rows)]
        a == [NoArg EXCEPT !.username = username, !.email = email,
                           !.password = password]
    IN  IF UniqueOK(Append(rows, stored))
        THEN /\ NextId(rows) <= MaxUserId
             /\ rows' = Append(rows, stored)
             /\ Ran("create_user", a, MsgCreated, <<stored>>, ExitOk)
        ELSE \* IntegrityError: db.rollback()
             /\ rows' = rows
             /\ Ran("create_user", a, MsgTaken, <<>>, ExitOk)

\* delete_user without the db.commit() of line 108: the row stays
delete_user_NoCommit(username) ==
    LET i == FirstByUsername(rows, username)
        a == [NoArg EXCEPT !.username = username]
    IN  IF i = 0
        THEN /\ rows' = rows
             /\ Ran("delete_user", a, MsgDeleteNotFound, <<>>, ExitOk)
        ELSE /\ rows' = rows
             /\ Ran("delete_user", a, MsgDeleted, <<>>, ExitOk)

\* delete_user with the lookup of line 103 by substring instead of equality
delete_user_Like(username) ==
    LET i == FirstLikeUsername(rows, username)
        a == [NoArg EXCEPT !.username = username]
    IN  IF i = 0
        THEN /\ rows' = rows
             /\ Ran("delete_user", a, MsgDeleteNotFound, <<>>, ExitOk)
        ELSE /\ rows' = RemoveAt(rows, i)
             /\ Ran("delete_user", a, MsgDeleted, <<>>, ExitOk)

delete_user(username) ==
    LET i == FirstByUsername(rows, username)
        a == [NoArg EXCEPT !.username = username]
    IN  IF i = 0
        THEN /\ rows' = rows
             /\ Ran("delete_user", a, MsgDeleteNotFound, <<>>, ExitOk)
        ELSE /\ rows' = RemoveAt(rows, i)
             /\ Ran("delete_user", a, MsgDeleted, <<>>, ExitOk)

Next ==
    \/ initialize
    \/ \E query \in Queries : get_user(query)
    \/ \E limit \in Limits, offset \in Offsets : get_all_users(limit, offset)
    \/ \E username \in Usernames, new_email \in Emails : change_email(username, new_email)
    \/ \E username \in Usernames, email \in Emails, password \in Passwords :
           create_user(username, email, password)
    \/ \E username \in Usernames : delete_user(username)

Spec == Init /\ [][Next]_vars

(* ------------------------------ properties ---------------------------- *)

\* q occurs in s as a run of consecutive characters
IsSubstring(q, s) ==
    \E k \in 0 .. (Len(s) - Len(q)) :
        \A n \in 1 .. Len(q) : s[k + n] = q[n]

\* the records of a sequence, as a set
Records(seq) == {seq[i] : i \in DOMAIN seq}

\* the rows at the 0-based positions offset .. offset+limit-1 of store
Page(store, offset, limit) ==
    LET lo == IF offset < 0 THEN 0 ELSE offset
        hi == IF offset + limit - 1 > Len(store) - 1
              THEN Len(store) - 1 ELSE offset + limit - 1
    IN  IF hi < lo THEN <<>> ELSE [k \in 1 .. (hi - lo + 1) |-> store[lo + k]]

HasUsername(store, username) == \E i \in DOMAIN store : store[i].username = username

\* C1: in every reachable state no two User rows share a username and no two
\* User rows share an email.
C1_UniqueUsernameAndEmail ==
    \A i, j \in 1 .. Len(rows) :
        i < j => /\ rows[i].username # rows[j].username
                 /\ rows[i].email # rows[j].email

\* C1 witness: a full table on which a duplicate was just refused
C1_Witness ==
    /\ Len(rows) = 3
    /\ \/ cmd = "create_user" /\ msg = MsgTaken
       \/ cmd = "change_email" /\ status = ExitError

\* C2: create_user with a username or an email some row already has leaves the
\* table as it was and ends normally with "Username or email already taken!".
C2_DuplicateCreateRolledBack ==
    ( /\ cmd = "create_user"
      /\ \E i \in DOMAIN before :
            before[i].username = arg.username \/ before[i].email = arg.email )
    => /\ rows = before
       /\ msg = MsgTaken
       /\ status = ExitOk
       /\ result = <<>>

\* C2 witness: a create_user whose username is taken while its email is free
C2_Witness ==
    /\ cmd = "create_user"
    /\ msg = MsgTaken
    /\ Cardinality({i \in DOMAIN rows : rows[i].username = arg.username}) = 1
    /\ \A i \in DOMAIN rows : rows[i].email # arg.email

\* C3 as stated: get_user(u) right after a successful create_user(u, ..) returns
\* exactly one record, and its username is u.
C3_Original ==
    ( /\ cmd = "get_user"
      /\ prev.cmd = "create_user" /\ prev.msg = MsgCreated
      /\ arg.query = prev.username )
    => /\ Len(result) = 1
       /\ result[1].username = arg.query

\* C3 as amended: get_user(u) right after a successful create_user(u, ..) ends
\* normally and returns the record whose username is u exactly once, possibly
\* among the records of other users whose username or email matches u.
C3_CreatedUserIsFound ==
    ( /\ cmd = "get_user"
      /\ prev.cmd = "create_user" /\ prev.msg = MsgCreated
      /\ arg.query = prev.username )
    => /\ Cardinality({i \in DOMAIN result : result[i].username = arg.query}) = 1
       /\ msg = MsgListed
       /\ status = ExitOk

\* C3 witness: the created user is found together with another user
C3_Witness ==
    /\ cmd = "get_user"
    /\ prev.cmd = "create_user" /\ prev.msg = MsgCreated
    /\ arg.query = prev.username
    /\ Len(result) >= 2

\* C4 as stated: get_user(u) right after delete_user(u) returns nothing and
\* prints "No users found".
C4_Original ==
    ( /\ cmd = "get_user"
      /\ prev.cmd = "delete_user"
      /\ arg.query = prev.username )
    => /\ result = <<>>
       /\ msg = MsgNoUsers

\* C4 as amended: get_user(u) right after delete_user(u) returns no record whose
\* username is u, and prints "No users found" exactly when it returns nothing.
C4_DeletedUserIsGone ==
    ( /\ cmd = "get_user"
      /\ prev.cmd = "delete_user"
      /\ arg.query = prev.username )
    => /\ \A i \in DOMAIN result : result[i].username # arg.query
       /\ msg = MsgNoUsers <=> result = <<>>
       /\ status = ExitOk

\* C4 witness: the user was deleted and the search still lists another user
C4_Witness ==
    /\ cmd = "get_user"
    /\ prev.cmd = "delete_user" /\ prev.msg = MsgDeleted
    /\ arg.query = prev.username
    /\ result # <<>>

\* C5: get_user(q) returns exactly the users whose username or email has q as
\* a substring, and prints "No users found" exactly when there are none.
C5_Original ==
    cmd = "get_user"
    => LET expected == {u \in Records(before) :
                           IsSubstring(arg.query, u.username)
                               \/ IsSubstring(arg.query, u.email)}
       IN  /\ Records(result) = expected
           /\ msg = MsgNoUsers <=> expected = {}

\* C6: initialize leaves exactly one user, bob with bob@mail.com, whatever the
\* table held, and a get_user("bob") that follows returns exactly that record.
C6_InitializeLeavesOnlyBob ==
    /\ cmd = "initialize"
       => /\ Len(rows) = 1
          /\ rows[1].username = bob
          /\ rows[1].email = bobmail
          /\ status = ExitOk
    /\ (cmd = "get_user" /\ prev.cmd = "initialize" /\ arg.query = bob)
       => /\ Len(result) = 1
          /\ result[1].username = bob
          /\ result[1].email = bobmail

\* C6 witness: initialize ran on a table of several users, bob among them
C6_Witness ==
    /\ cmd = "initialize"
    /\ Len(before) >= 2
    /\ HasUsername(before, bob)

\* C7: change_email and delete_user on a username no row has exactly leave the
\* table as it was and end normally with their not-found message.
C7_NotFoundLeavesStore ==
    ( /\ cmd \in {"change_email", "delete_user"}
      /\ ~HasUsername(before, arg.username) )
    => /\ rows = before
       /\ status = ExitOk
       /\ msg = IF cmd = "change_email" THEN MsgEmailNotFound ELSE MsgDeleteNotFound

\* C7 witness: the username is not found although a row's username contains it
C7_Witness ==
    /\ cmd = "delete_user"
    /\ msg = MsgDeleteNotFound
    /\ \E i \in DOMAIN rows : IsSubstring(arg.username, rows[i].username)

\* C8: get_all_users(limit, offset) returns the rows at positions
\* offset .. offset+limit-1 of the stored order and leaves the table alone.
C8_Original ==
    cmd = "get_all_users"
    => /\ rows = before
       /\ status = ExitOk
       /\ result = Page(before, arg.offset, arg.limit)

\* C9: change_email to an email another user has fails at the store, leaves
\* every row as it was and leaves the command as an error, not as an update.
C9_DuplicateEmailUpdateFails ==
    ( /\ cmd = "change_email"
      /\ HasUsername(before, arg.username)
      /\ \E j \in DOMAIN before :
            before[j].email = arg.email /\ before[j].username # arg.username )
    => /\ rows = before
       /\ status = ExitError
       /\ msg = MsgIntegrityError

\* C9 witness: an update to another user's email was attempted
C9_Witness ==
    /\ cmd = "change_email"
    /\ HasUsername(before, arg.username)
    /\ \E j \in DOMAIN before :
          before[j].email = arg.email /\ before[j].username # arg.username
    /\ status = ExitError

\* C10: a successful change_email changes the email of the one row with that
\* exact username and nothing else; a successful delete_user removes that one
\* row and nothing else.
C10_OnlyTheNamedRow ==
    /\ (cmd = "change_email" /\ msg = MsgUpdated)
       => \E i \in DOMAIN before :
             /\ before[i].username = arg.username
             /\ Len(rows) = Len(before)
             /\ rows[i] = [id |-> before[i].id, username |-> before[i].username,
                           email |-> arg.email, password |-> before[i].password]
             /\ \A k \in DOMAIN before : k # i => rows[k] = before[k]
    /\ (cmd = "delete_user" /\ msg = MsgDeleted)
       => \E i \in DOMAIN before :
             /\ before[i].username = arg.username
             /\ Len(rows) = Len(before) - 1
             /\ \A k \in DOMAIN rows :
                   rows[k] = IF k < i THEN before[k] ELSE before[k + 1]

\* C10 witness: the email of a user really changed while a user whose username
\* contains that username stands before it in the table
C10_Witness ==
    /\ cmd = "change_email"
    /\ msg = MsgUpdated
    /\ rows # before
    /\ \E i, k \in DOMAIN rows :
          /\ k < i
          /\ rows[i].username = arg.username
          /\ IsSubstring(arg.username, rows[k].username)

====
